---- MODULE Spec2Model ----
(***************************************************************************)
(* Model of the quiz-solving agent: the agent loop of solver/agent.py,     *)
(* the plan and answer resolvers of solver/planner.py and the file         *)
(* retriever of solver/tools.py.                                           *)
(*                                                                         *)
(* Python values are modelled as follows.  A text is a sequence of         *)
(* one-character strings.  A URL is the text seen through urlparse: a      *)
(* record of its scheme, its netloc and its path split at "/".  None, and  *)
(* the values of a JSON object, are records tagged by the field t.         *)
(***************************************************************************)
EXTENDS Integers, Sequences, FiniteSets, TLC

VARIABLES
    pc,              \* position of the coroutine run_quiz_solver_background
    email,           \* argument email
    secret,          \* argument secret
    initial_url,     \* argument initial_url
    current_url,     \* local current_url
    start_time,      \* local start_time
    now,             \* the wall clock read by time.time()
    page_context,    \* local page_context
    plan,            \* local plan
    question,        \* local question
    data_url,        \* local data_url (after urljoin)
    submit_url,      \* local submit_url (after urljoin)
    data_context,    \* local data_context
    file_path,       \* local file_path
    final_answer,    \* local final_answer
    submit_response, \* local submit_response
    result_data,     \* local result_data
    call,            \* the external call the coroutine is suspended in
    calls,           \* external calls issued since the current round began
    reply,           \* what the last completed external call returned
    log,             \* the last line the loop printed when it left a round
    fin,             \* input of the pure function under study
    fout,            \* outputs of the pure function under study
    http,            \* the request to /quiz-endpoint and its handling
    runs,            \* the downloads of the runs that execute concurrently
    files            \* the download directory temp_data

vars == <<pc, email, secret, initial_url, current_url, start_time, now,
          page_context, plan, question, data_url, submit_url, data_context,
          file_path, final_answer, submit_response, result_data, call, calls,
          reply, log, fin, fout,
                   http, runs, files>>

agentVars == <<pc, email, secret, initial_url, current_url, start_time, now,
               page_context, plan, question, data_url, submit_url,
               data_context, file_path, final_answer, submit_response,
               result_data, call, calls, reply, log>>

-----------------------------------------------------------------------------
(* Bounds of the model.                                                    *)

\* the clock stops advancing at start_time + MaxElapsed
MaxElapsed == 172
\* longest raw completion text of the answer normalisation study
MaxLen == 4
\* longest split path of a URL of the URL resolution study
MaxSegs == 3

-----------------------------------------------------------------------------
(* Python values.                                                          *)

None == [t |-> "None"]
Unset == [t |-> "unset"]
PyStr(s) == [t |-> "str", s |-> s]
PyInt(n) == [t |-> "int", v |-> n]
PyBool(b) == [t |-> "bool", v |-> b]
Url(sc, nl, p) == [t |-> "url", scheme |-> sc, netloc |-> nl, path |-> p]

\* the empty string, seen as a URL
EmptyUrl == Url("", "", <<"">>)

\* bool(v) of a dictionary value
Truthy(v) ==
    /\ v # None
    /\ v # EmptyUrl
    /\ v # PyStr(<<>>)

\* d.get(k)
Get(d, k) == IF k \in DOMAIN d THEN d[k] ELSE None

\* s.startswith(p)
StartsWith(s, p) == Len(s) >= Len(p) /\ SubSeq(s, 1, Len(p)) = p

ErrorPrefix == <<"E", "r", "r", "o", "r", ":">>

ANSWER_NOT_FOUND ==
    <<"A", "N", "S", "W", "E", "R", "_", "N", "O", "T", "_",
      "F", "O", "U", "N", "D">>

-----------------------------------------------------------------------------
(* urllib.parse.urljoin, as called by the agent loop.                      *)

uses_relative == {"", "http", "https", "ftp", "file"}
uses_netloc == {"", "http", "https", "ftp", "file"}

\* urlunparse followed by the parse of its result: with a netloc, or with
\* a scheme that takes one, a non-empty path gets a leading "/"
urlunparse(sc, nl, p) ==
    IF /\ \/ nl # ""
          \/ /\ sc # ""
             /\ sc \in uses_netloc
             /\ ~(Len(p) >= 3 /\ p[1] = "" /\ p[2] = "")
       /\ p # <<"">>
       /\ p[1] # ""
    THEN Url(sc, nl, <<"">> \o p)
    ELSE Url(sc, nl, p)

\* segments[1:-1] = filter(None, segments[1:-1])
RECURSIVE FilterEmpty(_)
FilterEmpty(s) ==
    IF s = <<>> THEN <<>>
    ELSE IF Head(s) = "" THEN FilterEmpty(Tail(s))
    ELSE <<Head(s)>> \o FilterEmpty(Tail(s))

FilterMiddle(s) ==
    IF Len(s) <= 2 THEN s
    ELSE <<s[1]>> \o FilterEmpty(SubSeq(s, 2, Len(s) - 1)) \o <<s[Len(s)]>>

\* the loop over segments that builds resolved_path
RECURSIVE ResolveSegments(_, _)
ResolveSegments(segs, acc) ==
    IF segs = <<>> THEN acc
    ELSE IF Head(segs) = ".."
         THEN ResolveSegments(Tail(segs),
                  IF acc = <<>> THEN acc ELSE SubSeq(acc, 1, Len(acc) - 1))
    ELSE IF Head(segs) = "."
         THEN ResolveSegments(Tail(segs), acc)
    ELSE ResolveSegments(Tail(segs), acc \o <<Head(segs)>>)

\* '/'.join(resolved_path) or '/', split again at "/"
JoinOrRoot(p) == IF p = <<>> \/ p = <<"">> THEN <<"", "">> ELSE p

\* variant: the last segment of the base path is kept
ResolvePath_keep(bpath, path) ==
    LET segments == IF Len(path) >= 2 /\ path[1] = ""
                    THEN path
                    ELSE FilterMiddle(bpath \o path)
        resolved == ResolveSegments(segments, <<>>)
        resolved_path == IF segments[Len(segments)] \in {".", ".."}
                         THEN resolved \o <<"">>
                         ELSE resolved
    IN JoinOrRoot(resolved_path)

ResolvePath(bpath, path) ==
    LET base_parts == IF bpath[Len(bpath)] # ""
                      THEN SubSeq(bpath, 1, Len(bpath) - 1)
                      ELSE bpath
        segments == IF Len(path) >= 2 /\ path[1] = ""
                    THEN path
                    ELSE FilterMiddle(base_parts \o path)
        resolved == ResolveSegments(segments, <<>>)
        resolved_path == IF segments[Len(segments)] \in {".", ".."}
                         THEN resolved \o <<"">>
                         ELSE resolved
    IN JoinOrRoot(resolved_path)

urljoin(base, url) ==
    IF base = EmptyUrl THEN url
    ELSE IF url = EmptyUrl THEN base
    ELSE LET scheme == IF url.scheme = "" THEN base.scheme ELSE url.scheme
         IN IF scheme # base.scheme \/ scheme \notin uses_relative THEN url
            ELSE IF scheme \in uses_netloc /\ url.netloc # ""
                 THEN urlunparse(scheme, url.netloc, url.path)
            ELSE IF url.path = <<"">>
                 THEN urlunparse(scheme, base.netloc, base.path)
            ELSE urlunparse(scheme, base.netloc,
                            ResolvePath(base.path, url.path))

-----------------------------------------------------------------------------
(* Answer normalisation of get_answer_from_llm.                            *)

Digits == {"0", "1", "2", "3", "4", "5", "6", "7", "8", "9"}
Whitespace == {" "}

DigitVal(c) ==
    CASE c = "0" -> 0 [] c = "1" -> 1 [] c = "2" -> 2 [] c = "3" -> 3
      [] c = "4" -> 4 [] c = "5" -> 5 [] c = "6" -> 6 [] c = "7" -> 7
      [] c = "8" -> 8 [] c = "9" -> 9

\* str.strip()
RECURSIVE LStrip(_)
LStrip(s) ==
    IF s # <<>> /\ Head(s) \in Whitespace THEN LStrip(Tail(s)) ELSE s

RECURSIVE RStrip(_)
RStrip(s) ==
    IF s # <<>> /\ s[Len(s)] \in Whitespace
    THEN RStrip(SubSeq(s, 1, Len(s) - 1))
    ELSE s

Strip(s) == RStrip(LStrip(s))

\* variant: the decimal point is stripped with the other characters
RECURSIVE Clean_digits(_)
Clean_digits(s) ==
    IF s = <<>> THEN <<>>
    ELSE IF Head(s) \in Digits
         THEN <<Head(s)>> \o Clean_digits(Tail(s))
    ELSE Clean_digits(Tail(s))

\* re.sub(r"[^0-9.]", "", answer)
RECURSIVE Clean(_)
Clean(s) ==
    IF s = <<>> THEN <<>>
    ELSE IF Head(s) \in Digits \cup {"."}
         THEN <<Head(s)>> \o Clean(Tail(s))
    ELSE Clean(Tail(s))

RECURSIVE CountDots(_)
CountDots(s) ==
    IF s = <<>> THEN 0
    ELSE (IF Head(s) = "." THEN 1 ELSE 0) + CountDots(Tail(s))

\* float(cleaned) does not raise ValueError
FloatParses(c) == CountDots(c) <= 1 /\ Len(c) > CountDots(c)

\* the digits before the decimal point
RECURSIVE IntegerPart(_)
IntegerPart(c) ==
    IF c = <<>> \/ Head(c) = "." THEN <<>>
    ELSE <<Head(c)>> \o IntegerPart(Tail(c))

RECURSIVE DigitsValue(_, _)
DigitsValue(c, acc) ==
    IF c = <<>> THEN acc
    ELSE DigitsValue(Tail(c), 10 * acc + DigitVal(Head(c)))

\* int(float(cleaned))
IntOfFloat(c) == DigitsValue(IntegerPart(c), 0)

\* lines 131-144 of get_answer_from_llm
NormalizeAnswer(content) ==
    LET answer == Strip(content)
        cleaned_answer == Clean(answer)
    IN IF answer = <<>> \/ answer = ANSWER_NOT_FOUND
       THEN PyStr(ANSWER_NOT_FOUND)
       ELSE IF cleaned_answer # <<>> /\ FloatParses(cleaned_answer)
            THEN PyInt(IntOfFloat(cleaned_answer))
       ELSE PyStr(answer)

-----------------------------------------------------------------------------
(* What the environment can hand to the agent.                             *)

QuizUrl == Url("https", "h", <<"", "p", "q">>)
NextUrl == Url("https", "g", <<"", "n", "t">>)

InitialUrls == {QuizUrl, EmptyUrl}
StartTimes == {1000}
Delays == {0, 84, 85, 86}

PageA == PyStr(<<"<", "A", ">">>)
PageB == PyStr(<<"<", "B", ">">>)
ScrapeError ==
    PyStr(ErrorPrefix \o <<" ", "Could not scrape page. ", "goto failed">>)

\* scrape_page_content returns the markup or its error string, or the
\* browser launch raises
ScrapeOutcomes ==
    {[kind |-> "return", value |-> v] : v \in {PageA, PageB, ScrapeError}}
        \cup {[kind |-> "raise"]}

Q1 == PyStr(<<"Q. Get the secret code">>)
RelSubmit == Url("", "", <<"", "submit">>)
RelData == Url("", "", <<"data.csv">>)
AbsSubmit == Url("https", "g", <<"", "submit">>)
AbsPdf == Url("https", "g", <<"", "f", "r.pdf">>)
RelAudio == Url("", "", <<"", "a.mp3">>)

NotJson == [t |-> "text"]
JsonList == [t |-> "list"]

PlanDicts ==
    { [question |-> Q1, data_url |-> None, submit_url |-> RelSubmit,
       analysis_plan |-> Q1],
      [question |-> Q1, data_url |-> RelData, submit_url |-> RelSubmit],
      [question |-> Q1, data_url |-> AbsPdf, submit_url |-> AbsSubmit],
      [question |-> Q1, data_url |-> RelAudio, submit_url |-> RelSubmit],
      [question |-> Q1, data_url |-> EmptyUrl, submit_url |-> RelSubmit],
      [data_url |-> None, submit_url |-> RelSubmit],
      [question |-> None, data_url |-> RelData, submit_url |-> RelSubmit],
      [question |-> Q1, data_url |-> None],
      [question |-> Q1, data_url |-> RelData, submit_url |-> None],
      [question |-> Q1, data_url |-> None, submit_url |-> EmptyUrl],
      [question |-> Q1, data_url |-> None, submit_url |-> RelSubmit,
       error |-> None],
      [question |-> Q1, data_url |-> PyInt(5), submit_url |-> RelSubmit] }

\* the completion call of the Plan Resolver
PlanOutcomes ==
    {[kind |-> "http_error"], [kind |-> "malformed"]}
        \cup {[kind |-> "ok", content |-> c] :
                 c \in PlanDicts \cup {NotJson, JsonList}}

CsvText == PyStr(<<"10", "\n", "200">>)
PdfText == PyStr(<<"--- PDF Page 1 ---", "\n", "text">>)

\* download_file followed by the extractor chosen by the agent
DownloadOutcomes ==
    {[kind |-> "download_raise"], [kind |-> "extract_raise"],
     [kind |-> "ok"]}

RawAnswers ==
    {<<"4", "2">>, ANSWER_NOT_FOUND, <<"n", "o">>, <<" ", "7", ".", "9">>}

\* the completion call of the Answer Resolver
AnswerOutcomes ==
    {[kind |-> "http_error"], [kind |-> "malformed"]}
        \cup {[kind |-> "ok", content |-> c] : c \in RawAnswers}

Statuses == {200, 299, 300, 404}

Bodies ==
    { [correct |-> PyBool(TRUE), url |-> NextUrl],
      [correct |-> PyBool(TRUE), url |-> None],
      [correct |-> PyBool(FALSE), url |-> NextUrl,
       reason |-> PyStr(<<"wrong">>)],
      [correct |-> PyBool(FALSE), reason |-> PyStr(<<"wrong">>)],
      [correct |-> PyBool(TRUE), url |-> EmptyUrl],
      NotJson }

\* the submission POST
PostOutcomes ==
    {[kind |-> "raise"]}
        \cup {[kind |-> "response", status |-> st, body |-> b] :
                 st \in Statuses, b \in Bodies}

-----------------------------------------------------------------------------
(* The Plan Resolver, the Answer Resolver and the File Retriever.          *)

ErrorMarker(reason) == [error |-> PyStr(reason)]

\* variant: only a missing or null submit_url is rejected
SubmitUrlMissing_none(plan_dict) == Get(plan_dict, "submit_url") = None

\* "if not plan_dict.get('submit_url')"
SubmitUrlMissing(plan_dict) == ~Truthy(Get(plan_dict, "submit_url"))

\* the result of get_plan_from_llm for an outcome of its completion call
get_plan_from_llm(o) ==
    IF o.kind = "http_error" THEN ErrorMarker(<<"HTTPStatusError">>)
    ELSE IF o.kind = "malformed" THEN ErrorMarker(<<"KeyError">>)
    ELSE IF o.content = NotJson THEN ErrorMarker(<<"JSONDecodeError">>)
    ELSE IF o.content = JsonList THEN ErrorMarker(<<"AttributeError">>)
    ELSE IF SubmitUrlMissing(o.content)
         THEN ErrorMarker(<<"LLM failed to find a submit_url. Plan: ",
                            o.content>>)
    ELSE o.content

\* "question[:30]" in the first line of get_answer_from_llm raises
\* TypeError unless question can be sliced
QuestionSlices(q) == q.t = "str"

\* the result of get_answer_from_llm for an outcome of its completion call
get_answer_from_llm(o) ==
    IF o.kind = "http_error"
    THEN PyStr(ErrorPrefix \o <<" ", "HTTPStatusError">>)
    ELSE IF o.kind = "malformed"
         THEN PyStr(ErrorPrefix \o <<" ", "KeyError">>)
    ELSE NormalizeAnswer(o.content)

\* the extension of a file name
Extension(name) ==
    CASE name = "data.csv" -> ".csv"
      [] name = "r.pdf" -> ".pdf"
      [] name = "a.mp3" -> ".mp3"
      [] OTHER -> ""

\* the path download_file saves to and returns
download_file(url, save_path) ==
    LET tail == url.path[Len(url.path)]
        filename == IF Extension(tail) # "" THEN <<tail>>
                    ELSE <<"data_", tail>>
    IN PyStr(<<save_path, "/">> \o filename)

\* file_path.endswith(ext)
EndsWith(fp, ext) == Extension(fp.s[Len(fp.s)]) = ext

\* the data context the agent derives from a downloaded file
ExtractText(fp) ==
    IF EndsWith(fp, ".pdf") THEN PdfText
    ELSE IF EndsWith(fp, ".csv") THEN CsvText
    ELSE PyStr(<<"File downloaded to: ">> \o fp.s)

\* f"Error processing file: {e}"
FileError(kind) == PyStr(<<"Error processing file: ", kind>>)

-----------------------------------------------------------------------------
(* The agent loop.                                                         *)

TIMEOUT == 170

NoCall == [fn |-> "none"]
NoReply == [fn |-> "none"]
ZeroCalls ==
    [fetch |-> 0, plan |-> 0, download |-> 0, answer |-> 0, submit |-> 0]

Min(a, b) == IF a < b THEN a ELSE b

\* the clock advances while the coroutine is suspended
Advance(d) == now' = Min(now + d, start_time + MaxElapsed)

\* variant: the budget is exhausted at 170 seconds already
TimedOut_ge(t, t0) == (t - t0) >= TIMEOUT

\* "(time.time() - start_time) > 170"
TimedOut(t, t0) == (t - t0) > TIMEOUT

\* variant: the page is compared with the prefix instead of tested for it
ScrapeFailed_exact(page) == page.s = ErrorPrefix

\* "page_context.startswith('Error:')"
ScrapeFailed(page) == StartsWith(page.s, ErrorPrefix)

\* variant: the plan's URLs are joined with the URL the run started on
ResolveUrl_initial(base, u) ==
    IF Truthy(u) THEN urljoin(initial_url, u) ELSE u

\* urljoin raises TypeError when it is given a value that is not a string
JoinRaises(u) == Truthy(u) /\ u.t # "url"

\* variant: the data context of the round before is kept
DefaultContext_stale(page, old) == IF old = Unset THEN page ELSE old

\* "data_context = page_context"
DefaultContext(page, old) == page

\* "if data_url: data_url = urljoin(current_url, data_url)"
ResolveUrl(base, u) == IF Truthy(u) THEN urljoin(base, u) ELSE u

\* variant: only client and server errors raise
IsSuccess_lt400(status) == status < 400

\* "raise_for_status()" returns normally
IsSuccess(status) == 200 <= status /\ status <= 299

\* variant: the handler logs the error and leaves current_url as it is
Except_keep ==
    /\ current_url' = current_url
    /\ log' = "exception"
    /\ pc' = "loop"
    /\ call' = NoCall

\* the except clause of the loop body
Except ==
    /\ current_url' = None
    /\ log' = "exception"
    /\ pc' = "loop"
    /\ call' = NoCall

\* "final_answer = await get_answer_from_llm(question, data_context)",
\* up to the completion call
InvokeAnswer(q, dc, cs) ==
    /\ calls' = [cs EXCEPT !.answer = @ + 1]
    /\ IF QuestionSlices(q)
       THEN /\ pc' = "answer"
            /\ call' = [fn |-> "answer", question |-> q, data_context |-> dc]
            /\ UNCHANGED <<current_url, log>>
       ELSE Except

\* the endpoint and the concurrent downloads, when they are not under study
NoRequest == [state |-> "none"]
NoFiles == [name \in {} |-> <<>>]

InitOther ==
    /\ http = NoRequest
    /\ runs = <<>>
    /\ files = NoFiles

Init ==
    /\ pc = "loop"
    /\ email = "e"
    /\ secret = "s"
    /\ initial_url \in InitialUrls
    /\ current_url = initial_url
    /\ start_time \in StartTimes
    /\ now = start_time
    /\ page_context = Unset
    /\ plan = Unset
    /\ question = Unset
    /\ data_url = Unset
    /\ submit_url = Unset
    /\ data_context = Unset
    /\ file_path = Unset
    /\ final_answer = Unset
    /\ submit_response = Unset
    /\ result_data = Unset
    /\ call = NoCall
    /\ calls = ZeroCalls
    /\ reply = NoReply
    /\ log = "none"
    /\ fin = Unset
    /\ fout = Unset
    /\ InitOther

\* variant: the while test looks at current_url only
LoopHead_nobudget ==
    /\ pc = "loop"
    /\ IF ~Truthy(current_url)
       THEN /\ pc' = "done"
            /\ UNCHANGED <<call, calls, log>>
       ELSE /\ pc' = "scrape"
            /\ call' = [fn |-> "scrape", url |-> current_url]
            /\ calls' = [ZeroCalls EXCEPT !.fetch = 1]
            /\ log' = "none"
    /\ UNCHANGED <<email, secret, initial_url, current_url, start_time, now,
                   page_context, plan, question, data_url, submit_url,
                   data_context, file_path, final_answer, submit_response,
                   result_data, reply, fin, fout,
                   http, runs, files>>

\* the while test, the timeout check and the call of scrape_page_content
LoopHead ==
    /\ pc = "loop"
    /\ IF ~Truthy(current_url)
       THEN /\ pc' = "done"
            /\ UNCHANGED <<call, calls, log>>
       ELSE IF TimedOut(now, start_time)
            THEN /\ pc' = "done"
                 /\ log' = "timeout"
                 /\ UNCHANGED <<call, calls>>
       ELSE /\ pc' = "scrape"
            /\ call' = [fn |-> "scrape", url |-> current_url]
            /\ calls' = [ZeroCalls EXCEPT !.fetch = 1]
            /\ log' = "none"
    /\ UNCHANGED <<email, secret, initial_url, current_url, start_time, now,
                   page_context, plan, question, data_url, submit_url,
                   data_context, file_path, final_answer, submit_response,
                   result_data, reply, fin, fout,
                   http, runs, files>>

\* scrape_page_content returns; the agent tests the page and calls
\* get_plan_from_llm
ScrapeReturn ==
    /\ pc = "scrape"
    /\ \E o \in ScrapeOutcomes, d \in Delays :
         /\ Advance(d)
         /\ reply' = [fn |-> "scrape", out |-> o]
         /\ IF o.kind = "raise"
            THEN /\ Except
                 /\ UNCHANGED <<page_context, calls>>
            ELSE /\ page_context' = o.value
                 /\ IF ScrapeFailed(o.value)
                    THEN /\ pc' = "done"
                         /\ log' = "scrape_failed"
                         /\ call' = NoCall
                         /\ UNCHANGED <<current_url, calls>>
                    ELSE /\ pc' = "plan"
                         /\ call' = [fn |-> "plan", page_context |-> o.value]
                         /\ calls' = [calls EXCEPT !.plan = @ + 1]
                         /\ UNCHANGED <<current_url, log>>
    /\ UNCHANGED <<email, secret, initial_url, start_time, plan, question,
                   data_url, submit_url, data_context, file_path,
                   final_answer, submit_response, result_data, fin, fout,
                   http, runs, files>>

\* get_plan_from_llm returns; the agent tests the plan, resolves its URLs
\* and calls download_file or get_answer_from_llm
PlanReturn ==
    /\ pc = "plan"
    /\ \E o \in PlanOutcomes, d \in Delays :
         LET p == get_plan_from_llm(o)
             du == ResolveUrl(current_url, Get(p, "data_url"))
             su == ResolveUrl(current_url, Get(p, "submit_url"))
             dc == DefaultContext(page_context, data_context)
         IN /\ Advance(d)
            /\ reply' = [fn |-> "plan", out |-> o]
            /\ plan' = p
            /\ IF "error" \in DOMAIN p
               THEN /\ pc' = "done"
                    /\ log' = "plan_failed"
                    /\ call' = NoCall
                    /\ UNCHANGED <<current_url, calls, question, data_url,
                                   submit_url, data_context>>
               ELSE IF JoinRaises(Get(p, "data_url"))
                    THEN /\ question' = Get(p, "question")
                         /\ data_url' = Get(p, "data_url")
                         /\ submit_url' = Get(p, "submit_url")
                         /\ Except
                         /\ UNCHANGED <<calls, data_context>>
               ELSE /\ question' = Get(p, "question")
                    /\ data_url' = du
                    /\ submit_url' = su
                    /\ data_context' = dc
                    /\ IF Truthy(du)
                       THEN /\ pc' = "download"
                            /\ call' = [fn |-> "download", url |-> du,
                                        save_path |-> "temp_data"]
                            /\ calls' = [calls EXCEPT !.download = @ + 1]
                            /\ UNCHANGED <<current_url, log>>
                       ELSE InvokeAnswer(Get(p, "question"), dc, calls)
    /\ UNCHANGED <<email, secret, initial_url, start_time, page_context,
                   file_path, final_answer, submit_response, result_data,
                   fin, fout,
                   http, runs, files>>

\* download_file returns; the agent extracts the text and calls
\* get_answer_from_llm
DownloadReturn ==
    /\ pc = "download"
    /\ \E o \in DownloadOutcomes, d \in Delays :
         LET fp == download_file(call.url, call.save_path)
             dc == IF o.kind = "download_raise" THEN FileError("ConnectError")
                   ELSE IF o.kind = "extract_raise" /\
                           (EndsWith(fp, ".pdf") \/ EndsWith(fp, ".csv"))
                        THEN FileError("ParserError")
                   ELSE ExtractText(fp)
         IN /\ Advance(d)
            /\ reply' = [fn |-> "download", out |-> o]
            /\ file_path' = IF o.kind = "download_raise" THEN file_path
                            ELSE fp
            /\ data_context' = dc
            /\ InvokeAnswer(question, dc, calls)
    /\ UNCHANGED <<email, secret, initial_url, start_time, page_context,
                   plan, question, data_url, submit_url, final_answer,
                   submit_response, result_data, fin, fout,
                   http, runs, files>>

\* variant: the payload names the submission URL instead of the page
SubmissionPayload_submit(a) ==
    [email |-> email, secret |-> secret, url |-> submit_url, answer |-> a]

\* "submission_payload = {...}"
SubmissionPayload(a) ==
    [email |-> email, secret |-> secret, url |-> current_url, answer |-> a]

\* variant: a failed completion call of the Answer Resolver is repeated
AnswerReturn_retry ==
    /\ pc = "answer"
    /\ \E o \in AnswerOutcomes, d \in Delays :
         LET a == get_answer_from_llm(o)
         IN /\ Advance(d)
            /\ reply' = [fn |-> "answer", out |-> o]
            /\ IF o.kind = "http_error"
               THEN /\ pc' = "answer"
                    /\ call' = call
                    /\ calls' = [calls EXCEPT !.answer = @ + 1]
                    /\ UNCHANGED final_answer
               ELSE /\ final_answer' = a
                    /\ pc' = "post"
                    /\ call' = [fn |-> "post", url |-> submit_url,
                                json |-> SubmissionPayload(a)]
                    /\ calls' = [calls EXCEPT !.submit = @ + 1]
    /\ UNCHANGED <<email, secret, initial_url, current_url, start_time,
                   page_context, plan, question, data_url, submit_url,
                   data_context, file_path, submit_response, result_data,
                   log, fin, fout, http, runs, files>>

\* get_answer_from_llm returns; the agent builds the payload and POSTs it
AnswerReturn ==
    /\ pc = "answer"
    /\ \E o \in AnswerOutcomes, d \in Delays :
         LET a == get_answer_from_llm(o)
         IN /\ Advance(d)
            /\ reply' = [fn |-> "answer", out |-> o]
            /\ final_answer' = a
            /\ pc' = "post"
            /\ call' = [fn |-> "post", url |-> submit_url,
                        json |-> SubmissionPayload(a)]
            /\ calls' = [calls EXCEPT !.submit = @ + 1]
    /\ UNCHANGED <<email, secret, initial_url, current_url, start_time,
                   page_context, plan, question, data_url, submit_url,
                   data_context, file_path, submit_response, result_data,
                   log, fin, fout,
                   http, runs, files>>

\* variant: a wrong answer ends the run
NextUrlOf_correct(body) ==
    IF Get(body, "correct") = PyBool(TRUE) THEN Get(body, "url") ELSE None

\* "current_url = result_data.get('url')" in either branch
NextUrlOf(body) == Get(body, "url")

\* the POST returns; the agent checks the status and reads the follow-up
PostReturn ==
    /\ pc = "post"
    /\ \E o \in PostOutcomes, d \in Delays :
         /\ Advance(d)
         /\ reply' = [fn |-> "post", out |-> o]
         /\ IF o.kind = "raise"
            THEN /\ Except
                 /\ UNCHANGED <<submit_response, result_data>>
            ELSE /\ submit_response' = [status |-> o.status, body |-> o.body]
                 /\ IF ~IsSuccess(o.status)
                    THEN /\ Except
                         /\ UNCHANGED result_data
                    ELSE IF o.body = NotJson
                         THEN /\ Except
                              /\ UNCHANGED result_data
                    ELSE /\ result_data' = o.body
                         /\ current_url' = NextUrlOf(o.body)
                         /\ log' = IF Get(o.body, "correct") = PyBool(TRUE)
                                   THEN IF Truthy(NextUrlOf(o.body))
                                        THEN "correct" ELSE "complete"
                                   ELSE IF Truthy(NextUrlOf(o.body))
                                        THEN "wrong" ELSE "wrong_final"
                         /\ pc' = "loop"
                         /\ call' = NoCall
    /\ UNCHANGED <<email, secret, initial_url, start_time, page_context,
                   plan, question, data_url, submit_url, data_context,
                   file_path, final_answer, calls, fin, fout,
                   http, runs, files>>

Next ==
    \/ LoopHead
    \/ ScrapeReturn
    \/ PlanReturn
    \/ DownloadReturn
    \/ AnswerReturn
    \/ PostReturn

Spec == Init /\ [][Next]_vars

TypeOK ==
    /\ pc \in {"loop", "scrape", "plan", "download", "answer", "post", "done"}
    /\ now >= start_time

-----------------------------------------------------------------------------
(* URL resolution on its own: urljoin applied to a base and a URL, and     *)
(* again to its own result.                                                *)

Segs == {"", ".", "..", "p", "data.csv"}
Paths == UNION {[1..n -> Segs] : n \in 1..MaxSegs}
Schemes == {"", "https", "http"}
Netlocs == {"", "h", "g"}

\* the records urlparse can return
IsParsed(u) ==
    /\ urlunparse(u.scheme, u.netloc, u.path) = u
    /\ u.netloc = "" =>
         ~(Len(u.path) >= 3 /\ u.path[1] = "" /\ u.path[2] = "")

JoinUrls ==
    {u \in {Url(sc, nl, p) : sc \in Schemes, nl \in Netlocs, p \in Paths} :
        IsParsed(u)}

JoinBases ==
    {QuizUrl, NextUrl, EmptyUrl,
     Url("https", "h", <<"">>), Url("https", "h", <<"", "p", "">>),
     Url("http", "g", <<"", "p", "q">>),
     Url("", "", <<"p", "q">>), Url("", "", <<"", "p">>)}

InitPure ==
    /\ email = "e"
    /\ secret = "s"
    /\ initial_url = EmptyUrl
    /\ current_url = EmptyUrl
    /\ start_time = 0
    /\ now = 0
    /\ page_context = Unset
    /\ plan = Unset
    /\ question = Unset
    /\ data_url = Unset
    /\ submit_url = Unset
    /\ data_context = Unset
    /\ file_path = Unset
    /\ final_answer = Unset
    /\ submit_response = Unset
    /\ result_data = Unset
    /\ call = NoCall
    /\ calls = ZeroCalls
    /\ reply = NoReply
    /\ log = "none"

InitJoin ==
    /\ InitPure
    /\ pc = "join"
    /\ fin \in {[base |-> b, url |-> u] : b \in JoinBases, u \in JoinUrls}
    /\ fout = Unset
    /\ InitOther

\* urljoin(current_url, url)
JoinOnce ==
    /\ pc = "join"
    /\ pc' = "rejoin"
    /\ fout' = [first |-> urljoin(fin.base, fin.url)]
    /\ UNCHANGED <<email, secret, initial_url, current_url, start_time, now,
                   page_context, plan, question, data_url, submit_url,
                   data_context, file_path, final_answer, submit_response,
                   result_data, call, calls, reply, log, fin,
                   http, runs, files>>

\* urljoin(current_url, urljoin(current_url, url))
JoinAgain ==
    /\ pc = "rejoin"
    /\ pc' = "joined"
    /\ fout' = [first |-> fout.first,
                second |-> urljoin(fin.base, fout.first)]
    /\ UNCHANGED <<email, secret, initial_url, current_url, start_time, now,
                   page_context, plan, question, data_url, submit_url,
                   data_context, file_path, final_answer, submit_response,
                   result_data, call, calls, reply, log, fin,
                   http, runs, files>>

NextJoin == JoinOnce \/ JoinAgain

SpecJoin == InitJoin /\ [][NextJoin]_vars

-----------------------------------------------------------------------------
(* Answer normalisation on its own: get_answer_from_llm applied to a raw   *)
(* completion text.                                                        *)

NormChars == {" ", "1", "9", ".", "a"}

Chars(n) == [1..n -> NormChars]

RawTexts ==
    UNION {Chars(n) : n \in 0..MaxLen}
        \cup {ANSWER_NOT_FOUND,
              <<" ">> \o ANSWER_NOT_FOUND \o <<" ">>,
              <<"a", "n", "s", "w", "e", "r", "_", "n", "o", "t", "_",
                "f", "o", "u", "n", "d">>,
              <<"2", "9", "1", "7", "2">>,
              <<"T", "h", "e", " ", "s", "u", "m", " ", "i", "s", " ",
                "4", "5", "0", "1", "2", "3", ".">>,
              <<"u", "n", "k", "n", "o", "w", "n">>,
              <<"1", ".", "2", ".", "3">>}

InitNorm ==
    /\ InitPure
    /\ pc = "normalize"
    /\ fin \in RawTexts
    /\ fout = Unset
    /\ InitOther

\* get_answer_from_llm on a completion that returned the text fin
NormApply ==
    /\ pc = "normalize"
    /\ pc' = "normalized"
    /\ fout' = get_answer_from_llm([kind |-> "ok", content |-> fin])
    /\ UNCHANGED <<email, secret, initial_url, current_url, start_time, now,
                   page_context, plan, question, data_url, submit_url,
                   data_context, file_path, final_answer, submit_response,
                   result_data, call, calls, reply, log, fin,
                   http, runs, files>>

NextNorm == NormApply

SpecNorm == InitNorm /\ [][NextNorm]_vars

-----------------------------------------------------------------------------
(* Properties of the agent loop.                                           *)

IsAbsolute(u) == u.t = "url" /\ u.scheme # "" /\ u.netloc # ""

\* C1: once scrape_page_content has returned a text beginning with
\* "Error:" the run is over, and that round has called neither the Plan
\* Resolver, nor the File Retriever, nor the Answer Resolver, nor the
\* submission endpoint.
C1_ScrapeErrorTerminates ==
    (page_context # Unset /\ StartsWith(page_context.s, ErrorPrefix)) =>
        /\ pc = "done"
        /\ call = NoCall
        /\ calls.plan = 0
        /\ calls.download = 0
        /\ calls.answer = 0
        /\ calls.submit = 0

\* a later round of a run fetched an error page and the run stopped there
C1_Witness ==
    /\ page_context = ScrapeError
    /\ current_url = NextUrl
    /\ pc = "done"
    /\ calls.fetch = 1

\* C2: when the plan the LLM returned has no submit_url, a null one or an
\* empty one, get_plan_from_llm returns the error marker and the run is
\* over without a download, an Answer Resolver call or a POST.
C2_MissingSubmitUrlTerminates ==
    (/\ reply.fn = "plan"
     /\ reply.out.kind = "ok"
     /\ reply.out.content \in PlanDicts
     /\ ~Truthy(Get(reply.out.content, "submit_url"))) =>
        /\ "error" \in DOMAIN plan
        /\ pc = "done"
        /\ call = NoCall
        /\ calls.download = 0
        /\ calls.answer = 0
        /\ calls.submit = 0

\* the LLM returned a plan with an empty submit_url and the run stopped
C2_Witness ==
    /\ reply.fn = "plan"
    /\ reply.out.kind = "ok"
    /\ reply.out.content =
           [question |-> Q1, data_url |-> None, submit_url |-> EmptyUrl]
    /\ log = "plan_failed"
    /\ pc = "done"

\* C3: at the head of every round the elapsed time since start_time is
\* compared with 170 seconds: above it the run ends without any external
\* call, at or below it the fetch of current_url is issued.
C3_TimeoutBeforeEachRound ==
    [][(pc = "loop" /\ Truthy(current_url)) =>
          IF now - start_time > 170
          THEN pc' = "done" /\ call' = NoCall
          ELSE pc' = "scrape" /\ call' = [fn |-> "scrape", url |-> current_url]
      ]_vars

\* a round that would have begun 171 seconds after the start was not begun
C3_Witness ==
    /\ pc = "done"
    /\ log = "timeout"
    /\ now - start_time = 171
    /\ current_url = NextUrl

\* C4: whenever the Answer Resolver has been called in a round and the
\* round has moved on, it returned an integer or a string and the answer
\* was POSTed.
C4_AnswerAlwaysUsable ==
    (calls.answer = 1 /\ pc \in {"post", "loop", "done"}) =>
        /\ calls.submit = 1
        /\ final_answer.t \in {"int", "str"}

\* C5: a download or extraction that raises leaves an error text as the
\* data context and the round still calls the Answer Resolver once with it
\* and submits; without a data_url nothing is downloaded and the data
\* context is the page.
C5_DownloadFailureDegrades ==
    LET raised ==
            /\ reply.fn = "download"
            /\ \/ reply.out.kind = "download_raise"
               \/ /\ reply.out.kind = "extract_raise"
                  /\ EndsWith(file_path, ".pdf") \/ EndsWith(file_path, ".csv")
        degraded ==
            /\ pc = "answer"
            /\ StartsWith(data_context.s, <<"Error processing file: ">>)
            /\ call = [fn |-> "answer", question |-> question,
                       data_context |-> data_context]
            /\ calls.answer = 1
    IN /\ raised => degraded
       /\ (calls.download = 1 /\ pc \in {"loop", "done"}) => calls.submit = 1
       /\ (calls.download = 0 /\ pc \in {"answer", "post"}) =>
              /\ ~Truthy(Get(plan, "data_url"))
              /\ data_context = page_context

\* C6: after a 2xx submission response current_url is the url field of
\* the response body, whatever its correct field; a missing, null or empty
\* url leaves no call in flight, and any fetch that follows is issued on
\* that url.
C6_FollowUpUrl ==
    (/\ reply.fn = "post"
     /\ reply.out.kind = "response"
     /\ reply.out.status \in 200..299
     /\ reply.out.body # NotJson) =>
        /\ current_url = Get(reply.out.body, "url")
        /\ pc \in {"loop", "scrape", "done"}
        /\ pc = "scrape" =>
               call = [fn |-> "scrape", url |-> Get(reply.out.body, "url")]
        /\ ~Truthy(Get(reply.out.body, "url")) =>
               pc \in {"loop", "done"} /\ call = NoCall

\* a wrong answer whose response names a follow-up URL: the next fetch is
\* on that URL
C6_Witness ==
    /\ reply.fn = "post"
    /\ reply.out.kind = "response"
    /\ reply.out.status = 200
    /\ reply.out.body = [correct |-> PyBool(FALSE), url |-> NextUrl,
                         reason |-> PyStr(<<"wrong">>)]
    /\ pc = "scrape"
    /\ call.url = NextUrl

\* C7: after a submission response whose status is not 2xx, current_url
\* is cleared and the run starts no further call, also when the body names
\* a url.
C7_NonSuccessTerminates ==
    (/\ reply.fn = "post"
     /\ reply.out.kind = "response"
     /\ reply.out.status \notin 200..299) =>
        /\ current_url = None
        /\ log = "exception"
        /\ pc \in {"loop", "done"}
        /\ call = NoCall

\* a 404 whose body names a follow-up URL ended the run
C7_Witness ==
    /\ reply.fn = "post"
    /\ reply.out.kind = "response"
    /\ reply.out.status = 404
    /\ Get(reply.out.body, "url") = NextUrl
    /\ pc = "done"

\* C8: the URL handed to download_file and the URL POSTed to are the
\* plan's data_url and submit_url joined with the current round's
\* current_url, and they are absolute.
C8_UrlsResolvedAgainstCurrent ==
    /\ pc = "download" =>
           /\ call.url = urljoin(current_url, Get(plan, "data_url"))
           /\ IsAbsolute(call.url)
    /\ pc = "post" =>
           /\ call.url = urljoin(current_url, Get(plan, "submit_url"))
           /\ IsAbsolute(call.url)

\* a later round POSTs to a relative submit_url joined with that round's URL
C8_Witness ==
    /\ pc = "post"
    /\ initial_url = QuizUrl
    /\ current_url = NextUrl
    /\ Get(plan, "submit_url") = RelSubmit
    /\ call.url = Url("https", "g", <<"", "submit">>)

-----------------------------------------------------------------------------
(* Properties of URL resolution.                                           *)

\* C9: with current_url = https://h/p/q, "data.csv" resolves to
\* https://h/p/data.csv and "/data.csv" to https://h/data.csv; an absolute
\* URL is returned unchanged; and resolving the result again against the
\* same absolute current_url returns it unchanged.
C9_UrlJoinCorrectIdempotent ==
    pc \in {"rejoin", "joined"} =>
        /\ (fin.base = QuizUrl /\ fin.url = Url("", "", <<"data.csv">>)) =>
               fout.first = Url("https", "h", <<"", "p", "data.csv">>)
        /\ (fin.base = QuizUrl /\ fin.url = Url("", "", <<"", "data.csv">>)) =>
               fout.first = Url("https", "h", <<"", "data.csv">>)
        /\ IsAbsolute(fin.url) => fout.first = fin.url
        /\ (pc = "joined" /\ IsAbsolute(fin.base)) =>
               fout.second = fout.first

\* "data.csv" resolved twice against https://h/p/q
C9_Witness ==
    /\ pc = "joined"
    /\ fin.base = QuizUrl
    /\ fin.url = Url("", "", <<"data.csv">>)
    /\ fout.second = Url("https", "h", <<"", "p", "data.csv">>)

-----------------------------------------------------------------------------
(* Properties of the answer normalisation.                                 *)

IsNumChar(c) == c \in Digits \cup {"."}

\* the text without its leading and trailing whitespace
Trimmed(s) ==
    LET inked == {i \in 1..Len(s) : s[i] \notin Whitespace}
    IN IF inked = {} THEN <<>>
       ELSE SubSeq(s, CHOOSE i \in inked : \A j \in inked : i <= j,
                      CHOOSE i \in inked : \A j \in inked : j <= i)

\* a decimal number: at least one digit, at most one point
IsDecimal(c) ==
    /\ \E i \in 1..Len(c) : c[i] \in Digits
    /\ Cardinality({i \in 1..Len(c) : c[i] = "."}) <= 1

RECURSIVE Pow10(_)
Pow10(n) == IF n = 0 THEN 1 ELSE 10 * Pow10(n - 1)

RECURSIVE WeightedSum(_, _, _)
WeightedSum(c, k, i) ==
    IF i > k THEN 0
    ELSE DigitVal(c[i]) * Pow10(k - i) + WeightedSum(c, k, i + 1)

\* the decimal number c truncated to an integer
Truncated(c) ==
    LET points == {i \in 1..Len(c) : c[i] = "."}
        k == IF points = {} THEN Len(c) ELSE (CHOOSE i \in points : TRUE) - 1
    IN WeightedSum(c, k, 1)

\* the result the normalisation rule gives for the text s
Normalized(s) ==
    IF s = <<>> \/ s = ANSWER_NOT_FOUND THEN PyStr(ANSWER_NOT_FOUND)
    ELSE IF IsDecimal(SelectSeq(s, IsNumChar))
         THEN PyInt(Truncated(SelectSeq(s, IsNumChar)))
    ELSE PyStr(s)

\* C10 as stated: the rule is applied to the raw completion text; an empty
\* text or the sentinel gives the sentinel, a text whose digits and points
\* form a decimal number gives that number truncated, any other text is
\* returned as it is.
C10_NormalizationOfRawText ==
    pc = "normalized" => fout = Normalized(fin)

\* C10 as amended: the rule is applied to the completion text stripped of
\* its leading and trailing whitespace, and the fallback result is that
\* stripped text.
C10_NormalizationOfStrippedText ==
    pc = "normalized" => fout = Normalized(Trimmed(fin))

\* a sentinel wrapped in blanks is recognised as the sentinel
C10_Witness ==
    /\ pc = "normalized"
    /\ fin = <<" ">> \o ANSWER_NOT_FOUND \o <<" ">>
    /\ fout = PyStr(ANSWER_NOT_FOUND)

-----------------------------------------------------------------------------
(* The trigger endpoint start_quiz of main.py, followed by the run it      *)
(* schedules.                                                              *)

MY_SECRET == "s"
MY_EMAIL == "e"

Payloads ==
    {[email |-> e, secret |-> sc, url |-> QuizUrl] :
        e \in {"e", "y"}, sc \in {"s", "x"}}

\* variant: the secret is not validated
SecretValid_skip(payload) == TRUE

\* "if payload.secret != MY_SECRET" does not raise
SecretValid(payload) == payload.secret = MY_SECRET

\* variant: the email is compared with the configured secret
EmailValid_copy(payload) == payload.email = MY_SECRET

\* "if payload.email != MY_EMAIL" does not raise
EmailValid(payload) == payload.email = MY_EMAIL

Forbidden(detail) == [status_code |-> 403, detail |-> detail]

Accepted ==
    [status_code |-> 200,
     body |-> [status |-> "accepted",
               message |-> "Quiz task accepted and is processing in the background."]]

InitTrigger ==
    /\ pc = "idle"
    /\ email = Unset
    /\ secret = Unset
    /\ initial_url = Unset
    /\ current_url = Unset
    /\ start_time = Unset
    /\ now \in StartTimes
    /\ page_context = Unset
    /\ plan = Unset
    /\ question = Unset
    /\ data_url = Unset
    /\ submit_url = Unset
    /\ data_context = Unset
    /\ file_path = Unset
    /\ final_answer = Unset
    /\ submit_response = Unset
    /\ result_data = Unset
    /\ call = NoCall
    /\ calls = ZeroCalls
    /\ reply = NoReply
    /\ log = "none"
    /\ fin = Unset
    /\ fout = Unset
    /\ runs = <<>>
    /\ files = NoFiles
    /\ http \in {[state |-> "received", payload |-> p, response |-> None,
                  tasks |-> <<>>, started |-> 0] : p \in Payloads}

\* the body of start_quiz: the two validations, add_task and the return
StartQuiz ==
    /\ http.state = "received"
    /\ http' =
         IF ~SecretValid(http.payload)
         THEN [http EXCEPT !.state = "handled",
                           !.response = Forbidden("Invalid secret provided.")]
         ELSE IF ~EmailValid(http.payload)
              THEN [http EXCEPT !.state = "handled",
                                !.response =
                                    Forbidden("Invalid email provided.")]
         ELSE [http EXCEPT !.state = "handled",
                           !.response = Accepted,
                           !.tasks = Append(@, http.payload)]
    /\ UNCHANGED <<agentVars, fin, fout, runs, files>>

\* the framework sends the response the handler produced
SendResponse ==
    /\ http.state = "handled"
    /\ http' = [http EXCEPT !.state = "sent"]
    /\ UNCHANGED <<agentVars, fin, fout, runs, files>>

\* after the response the framework runs the background task:
\* run_quiz_solver_background(payload.email, payload.secret, payload.url)
\* up to its while loop
RunTask ==
    /\ http.state = "sent"
    /\ http.tasks # <<>>
    /\ pc = "idle"
    /\ http' = [http EXCEPT !.tasks = Tail(@), !.started = @ + 1]
    /\ pc' = "loop"
    /\ email' = Head(http.tasks).email
    /\ secret' = Head(http.tasks).secret
    /\ initial_url' = Head(http.tasks).url
    /\ current_url' = Head(http.tasks).url
    /\ start_time' = now
    /\ UNCHANGED <<now, page_context, plan, question, data_url, submit_url,
                   data_context, file_path, final_answer, submit_response,
                   result_data, call, calls, reply, log, fin, fout, runs,
                   files>>

NextTrigger ==
    \/ StartQuiz
    \/ SendResponse
    \/ RunTask
    \/ Next

SpecTrigger == InitTrigger /\ [][NextTrigger]_vars

\* C11: a request whose secret and email both match is answered with the
\* "accepted" acknowledgment and schedules exactly one run; the run starts,
\* and so any of its network calls completes, only after that response is
\* sent, and the response never changes afterwards.
C11_AcceptedBeforeRun ==
    (http.payload.secret = "s" /\ http.payload.email = "e") =>
        /\ http.state # "received" =>
               /\ http.response = Accepted
               /\ Len(http.tasks) + http.started = 1
        /\ pc # "idle" => (http.state = "sent" /\ http.started = 1)
        /\ (call # NoCall \/ reply # NoReply) => http.state = "sent"

\* the acknowledgment is out while the first fetch of the run is in flight
C11_Witness ==
    /\ http.payload.secret = "s"
    /\ http.payload.email = "e"
    /\ http.state = "sent"
    /\ http.response = Accepted
    /\ pc = "scrape"
    /\ reply = NoReply

\* C12: a request whose secret or email differs from the configured value
\* is answered with a 403 rejection, schedules no run, and no fetch, LLM,
\* download or submission call follows from it.
C12_RejectedNeverRuns ==
    (http.payload.secret # "s" \/ http.payload.email # "e") =>
        /\ http.state # "received" =>
               /\ http.response.status_code = 403
               /\ http.tasks = <<>>
        /\ http.started = 0
        /\ pc = "idle"
        /\ call = NoCall
        /\ calls = ZeroCalls

\* a request with the right secret and a wrong email was rejected
C12_Witness ==
    /\ http.payload.secret = "s"
    /\ http.payload.email = "y"
    /\ http.state = "sent"
    /\ http.response = Forbidden("Invalid email provided.")
    /\ pc = "idle"

-----------------------------------------------------------------------------
(* Further properties of the agent loop.                                   *)

\* C13: the POST of a round carries exactly email, secret, url and answer:
\* the run's email and secret, the current_url the round fetched and has
\* kept since, and the value get_answer_from_llm returned in that round.
C13_SubmissionPayload ==
    [][/\ pc = "scrape" => call.url = current_url
       /\ (pc \in {"scrape", "plan", "download", "answer"} /\ pc' # "loop") =>
              current_url' = current_url
       /\ (pc = "answer" /\ pc' = "post") =>
              /\ DOMAIN call'.json = {"email", "secret", "url", "answer"}
              /\ call'.json.email = email
              /\ call'.json.secret = secret
              /\ call'.json.url = current_url
              /\ call'.json.answer = get_answer_from_llm(reply'.out)
              /\ final_answer' = call'.json.answer
      ]_vars

\* a later round submits 42 for the page it fetched, to another URL
C13_Witness ==
    /\ pc = "post"
    /\ initial_url = QuizUrl
    /\ current_url = NextUrl
    /\ call.json.url = NextUrl
    /\ call.url = Url("https", "g", <<"", "submit">>)
    /\ call.json.answer = PyInt(42)
    /\ call.json.email = "e"

\* an exception reached the except clause of the loop body
Raised ==
    \/ /\ reply.fn = "scrape"
       /\ reply.out.kind = "raise"
    \/ /\ reply.fn = "post"
       /\ \/ reply.out.kind = "raise"
          \/ /\ reply.out.kind = "response"
             /\ reply.out.status \notin 200..299 \/ reply.out.body = NotJson
    \/ /\ reply.fn = "plan"
       /\ plan # Unset
       /\ "error" \notin DOMAIN plan
       /\ Truthy(Get(plan, "data_url"))
       /\ Get(plan, "data_url").t # "url"
    \/ /\ reply.fn \in {"plan", "download"}
       /\ "error" \notin DOMAIN plan
       /\ calls.answer = 1
       /\ question.t # "str"

\* C14: after an exception of the fetch, the URL resolution, the answer
\* call, the POST, the status check or the parse of the response,
\* current_url is cleared, no call is in flight and the loop is at its
\* test or left: the round and the run are over.
C14_CatchAllTerminates ==
    Raised =>
        /\ current_url = None
        /\ log = "exception"
        /\ pc \in {"loop", "done"}
        /\ call = NoCall

\* the POST of a later round raised and the run ended
C14_Witness ==
    /\ reply.fn = "post"
    /\ reply.out.kind = "raise"
    /\ page_context = PageB
    /\ current_url = None
    /\ pc = "done"

\* C15: in a round the calls are issued one at a time in the order fetch,
\* plan, download (when there is one), answer, POST, each at most once,
\* and the call in flight is the last one issued.
C15_CallsInOrderOnce ==
    /\ \A k \in DOMAIN calls : calls[k] <= 1
    /\ pc = "scrape" =>
           /\ call.fn = "scrape"
           /\ calls = [ZeroCalls EXCEPT !.fetch = 1]
    /\ pc = "plan" =>
           /\ call.fn = "plan"
           /\ calls = [ZeroCalls EXCEPT !.fetch = 1, !.plan = 1]
    /\ pc = "download" =>
           /\ call.fn = "download"
           /\ calls = [ZeroCalls EXCEPT !.fetch = 1, !.plan = 1,
                                        !.download = 1]
    /\ pc = "answer" =>
           /\ call.fn = "answer"
           /\ calls = [ZeroCalls EXCEPT !.fetch = 1, !.plan = 1,
                                        !.download = calls.download,
                                        !.answer = 1]
    /\ pc = "post" =>
           /\ call.fn = "post"
           /\ calls = [ZeroCalls EXCEPT !.fetch = 1, !.plan = 1,
                                        !.download = calls.download,
                                        !.answer = 1, !.submit = 1]
    /\ pc \in {"loop", "done"} => call = NoCall

\* a round with a download has issued all five calls, the answer call
\* having failed once
C15_Witness ==
    /\ pc = "post"
    /\ calls = [fetch |-> 1, plan |-> 1, download |-> 1, answer |-> 1,
                submit |-> 1]
    /\ reply = [fn |-> "answer", out |-> [kind |-> "http_error"]]

\* C18 as stated: a JSON object with a non-empty submit_url that the LLM
\* returns is the plan of the round, the round does not end in a planning
\* failure and goes on to the download or the Answer Resolver.
C18_EveryPlanWithSubmitUrlAccepted ==
    (/\ reply.fn = "plan"
     /\ reply.out.kind = "ok"
     /\ reply.out.content \in PlanDicts
     /\ Truthy(Get(reply.out.content, "submit_url"))) =>
        /\ plan = reply.out.content
        /\ log # "plan_failed"
        /\ pc = "download" \/ calls.answer = 1

\* the data contexts a round can derive from its own download
OwnFileContexts(url) ==
    {FileError("ConnectError"), FileError("ParserError"),
     ExtractText(download_file(url, "temp_data"))}

\* C19: the page a round plans on is the page it fetched, its plan is the
\* plan the LLM returned for it, and the question, the data context and
\* the submission URL it uses come from that page, that plan and the
\* round's own download; none of them changes before the round ends.
C19_NoLeakBetweenRounds ==
    [][/\ (pc = "scrape" /\ pc' = "plan") =>
              /\ page_context' = reply'.out.value
              /\ call'.page_context = page_context'
       /\ (pc = "plan" /\ pc' \in {"download", "answer"}) =>
              /\ plan' = reply'.out.content
              /\ question' = Get(plan', "question")
              /\ submit_url' = urljoin(current_url, Get(plan', "submit_url"))
       /\ (pc = "plan" /\ pc' = "answer") =>
              /\ call'.question = Get(plan', "question")
              /\ call'.data_context = page_context
       /\ (pc = "download" /\ pc' = "answer") =>
              /\ call'.question = Get(plan, "question")
              /\ call'.data_context = data_context'
              /\ data_context' \in
                     OwnFileContexts(urljoin(current_url,
                                             Get(plan, "data_url")))
       /\ pc \in {"plan", "download", "answer"} =>
              page_context' = page_context
       /\ pc \in {"download", "answer"} =>
              /\ plan' = plan
              /\ question' = question
              /\ submit_url' = submit_url
       /\ (pc = "answer" /\ pc' = "post") =>
              call'.url = urljoin(current_url, Get(plan, "submit_url"))
      ]_vars

\* a round without a data_url, after a round that downloaded a file,
\* answers on its own page
C19_Witness ==
    /\ pc = "answer"
    /\ current_url = NextUrl
    /\ file_path # Unset
    /\ calls.download = 0
    /\ page_context = PageB
    /\ call.data_context = PageB

-----------------------------------------------------------------------------
(* Termination.  Every external call returns (weak fairness of the loop's  *)
(* steps) and the clock has moved on when the page of a round has been     *)
(* fetched.                                                                *)

\* the wall clock advances in every round
TimeAdvances == now' > now \/ now' = start_time + MaxElapsed

NextLive ==
    \/ LoopHead
    \/ ScrapeReturn /\ TimeAdvances
    \/ PlanReturn
    \/ DownloadReturn
    \/ AnswerReturn
    \/ PostReturn

SpecLive == Init /\ [][NextLive]_vars /\ WF_vars(NextLive)

\* C16: every run reaches its finished state, whatever the submission
\* endpoint answers, a follow-up URL in every response included.
C16_RunTerminates == <>(pc = "done")

\* a run that was sent on to the same follow-up URL again and again ends
\* on the time budget
C16_Witness ==
    /\ pc = "done"
    /\ log = "timeout"
    /\ initial_url = QuizUrl
    /\ current_url = NextUrl
    /\ call = NoCall
    /\ page_context = PageB
    /\ Get(result_data, "url") = NextUrl
    /\ now - start_time > TIMEOUT

-----------------------------------------------------------------------------
(* Concurrent runs.  Every accepted request adds a task to the one event   *)
(* loop; the tasks interleave at their awaits and share the directory      *)
(* temp_data.  A run is followed from the return of its plan to the call   *)
(* of the Answer Resolver: the GET inside download_file, the write of the  *)
(* file, the exit of "async with httpx.AsyncClient()", which awaits the    *)
(* close of the client, and the read of the file by the agent.             *)

\* number of runs in progress
MaxRuns == 2

\* data_url values of the plans
ConcDataUrls == {None, RelData, AbsPdf, RelAudio}

\* the bytes the server of a URL answers with: they depend on the host
ServedBytes(url) == <<url.netloc, url.path[Len(url.path)]>>

\* get_text_from_pdf on a file with these bytes
get_text_from_pdf(bytes) == PyStr(<<"--- PDF Page 1 ---", "\n">> \o bytes)

\* get_text_from_csv on a file with these bytes
get_text_from_csv(bytes) == PyStr(<<"rows">> \o bytes)

\* the branch of the agent on the extension, reading the directory
ReadText(fp, dir) ==
    IF EndsWith(fp, ".pdf") THEN get_text_from_pdf(dir[fp.s])
    ELSE IF EndsWith(fp, ".csv") THEN get_text_from_csv(dir[fp.s])
    ELSE PyStr(<<"File downloaded to: ">> \o fp.s)

\* open(filepath, 'wb') and f.write(response.content)
WriteFile(dir, fp, bytes) ==
    [k \in DOMAIN dir \cup {fp.s} |-> IF k = fp.s THEN bytes ELSE dir[k]]

\* a run whose plan call is in flight
RunAt(url) ==
    [pc |-> "plan", current_url |-> url, page_context |-> PageA,
     data_url |-> Unset, filepath |-> Unset, file_path |-> Unset,
     data_context |-> Unset]

InitConc ==
    /\ pc = "idle"
    /\ email = Unset
    /\ secret = Unset
    /\ initial_url = Unset
    /\ current_url = Unset
    /\ start_time = Unset
    /\ now \in StartTimes
    /\ page_context = Unset
    /\ plan = Unset
    /\ question = Unset
    /\ data_url = Unset
    /\ submit_url = Unset
    /\ data_context = Unset
    /\ file_path = Unset
    /\ final_answer = Unset
    /\ submit_response = Unset
    /\ result_data = Unset
    /\ call = NoCall
    /\ calls = ZeroCalls
    /\ reply = NoReply
    /\ log = "none"
    /\ fin = Unset
    /\ fout = Unset
    /\ http = NoRequest
    /\ files = NoFiles
    /\ runs \in [1..MaxRuns -> {RunAt(u) : u \in {QuizUrl, NextUrl}}]

\* the plan of run r returns: the data URL is resolved and, when there is
\* one, download_file runs up to "await client.get(url)"
ConcPlanReturn(r) ==
    /\ runs[r].pc = "plan"
    /\ \E d \in ConcDataUrls :
         IF Truthy(d)
         THEN LET u == urljoin(runs[r].current_url, d)
              IN runs' = [runs EXCEPT ![r].pc = "get",
                                      ![r].data_url = u,
                                      ![r].data_context =
                                          runs[r].page_context,
                                      ![r].filepath =
                                          download_file(u, "temp_data")]
         ELSE runs' = [runs EXCEPT ![r].pc = "answer",
                                   ![r].data_url = d,
                                   ![r].data_context = runs[r].page_context]
    /\ UNCHANGED <<agentVars, fin, fout, http, files>>

\* client.get of run r returns and the body is written to filepath, or it
\* raises and the agent records the error
ConcGetReturn(r) ==
    /\ runs[r].pc = "get"
    /\ \E ok \in BOOLEAN :
         IF ok
         THEN /\ files' = WriteFile(files, runs[r].filepath,
                                    ServedBytes(runs[r].data_url))
              /\ runs' = [runs EXCEPT ![r].pc = "exit"]
         ELSE /\ runs' = [runs EXCEPT ![r].pc = "answer",
                                      ![r].data_context =
                                          FileError("ConnectError")]
              /\ UNCHANGED files
    /\ UNCHANGED <<agentVars, fin, fout, http>>

\* the client of run r is closed, download_file returns filepath and the
\* agent reads the file at that path
ConcExitReturn(r) ==
    /\ runs[r].pc = "exit"
    /\ \E parsed \in BOOLEAN :
         LET fp == runs[r].filepath
             readable == EndsWith(fp, ".pdf") \/ EndsWith(fp, ".csv")
         IN runs' = [runs EXCEPT ![r].pc = "answer",
                                 ![r].file_path = fp,
                                 ![r].data_context =
                                     IF readable /\ ~parsed
                                     THEN FileError("ParserError")
                                     ELSE ReadText(fp, files)]
    /\ UNCHANGED <<agentVars, fin, fout, http, files>>

NextConc ==
    \E r \in 1..MaxRuns :
        \/ ConcPlanReturn(r)
        \/ ConcGetReturn(r)
        \/ ConcExitReturn(r)

SpecConc == InitConc /\ [][NextConc]_vars

\* the text the extractor yields on the bytes served for the run's data URL
OwnText(run) ==
    ReadText(run.file_path,
             WriteFile(NoFiles, run.file_path, ServedBytes(run.data_url)))

\* C17 as stated: the text a round has extracted from its downloaded file
\* is the text of the bytes its own download wrote, whatever the other
\* runs do.
C17_ReadsOwnDownload ==
    \A r \in DOMAIN runs :
        (/\ runs[r].pc = "answer"
         /\ runs[r].file_path # Unset
         /\ runs[r].data_context # FileError("ParserError")) =>
            runs[r].data_context = OwnText(runs[r])

====
